---- MODULE Spec2Model ----
(***************************************************************************)
(* Smart Vehicle Service System: the inventory ledger (inventory.db), the  *)
(* booking table and the users table (vehicle_service.db) of src/app.py    *)
(* and src/pages/customer/booking.py, and the login state of the browser   *)
(* sessions, as the Streamlit handlers drive them.                         *)
(*                                                                         *)
(* Every handler opens its own sqlite3 connection, so a handler's          *)
(* statements up to its commit are one action.  What a script run READS    *)
(* before a button handler fires (the inventory dataframe the item buttons *)
(* are rendered from, the SELECT of delete_inventory_item) is a separate   *)
(* step of that admin session: another session may commit in between.      *)
(***************************************************************************)
EXTENDS Integers, Sequences, FiniteSets, TLC

(* ------------------------------ bounds --------------------------------- *)
MaxItems == 2      \* cap of the AUTOINCREMENT counter of inventory
MaxHist == 3       \* cap of the AUTOINCREMENT counter of inventory_history
MaxBatch == 2      \* rows of an uploaded CSV file
MaxTime == 3       \* the clock stops after this many ticks
MaxUuid == 2       \* uuid4 values drawn by the car and motorcycle forms

\* two browser sessions
Sessions == {"s1", "s2"}

(* ------------------------------ values --------------------------------- *)
\* SQL NULL in a numeric column (columns without NOT NULL, app.py 283-286)
NULL == -1000
\* SQL NULL / a blank CSV cell in a text column
NullText == "<NULL>"

\* the values tried in the number inputs: none in stock and some, free and priced
QtyVals == {0, 1}
PriceVals == {0, 1}
MinStockVals == {0}
ItemNames == {"oil"}
Categories == {"Fluids"}
Statuses == {"In Stock", "Low Stock", "Out of Stock"}

VARIABLES
    inventory,    \* table inventory: id -> row
    nextItemId,   \* next AUTOINCREMENT id of inventory
    history,      \* table inventory_history: sequence of rows, in id order
    nextHistId,   \* next AUTOINCREMENT id of inventory_history
    sess,         \* per admin session: where its script run is, and the row it read
    lastInv,      \* the last inventory step and its outcome (what the page shows)
    bookings,     \* table bookings: booking_id -> row
    now,          \* the wall clock, in ticks
    uuidNext,     \* number of the next uuid4 value
    lastBook,     \* the last booking step and its outcome
    users,        \* table users: user_id -> row
    session_state, \* st.session_state of each browser session
    reg,          \* per session: the register_user call that has passed its SELECTs
    lastAuth,     \* the last login or registration step and its outcome
    api_key,      \* GEMINI_API_KEY of the process environment
    run,          \* per session: what its latest script run executed, in order
    ai            \* the last call of an AI helper and what it returned

invVars == <<inventory, nextItemId, history, nextHistId, sess, lastInv>>
bookVars == <<bookings, now, uuidNext, lastBook>>
authVars == <<users, session_state, reg, lastAuth>>
appVars == <<api_key, run, ai>>
vars == <<inventory, nextItemId, history, nextHistId, sess, lastInv,
          bookings, now, uuidNext, lastBook, users, session_state, reg, lastAuth,
          api_key, run, ai>>

NoItem == [id |-> 0, quantity |-> 0, price |-> 0]
NoDf == [columns |-> {}, rows |-> << >>]
Idle == [pc |-> "idle", item |-> NoItem, df |-> NoDf]

\* st.session_state of a fresh session, and after session_state.clear():
\* main() sets 'authenticated' to False; 'user' and 'current_view' are absent
NoUser == [user_id |-> <<"", 0>>, username |-> "", role |-> "", email |-> ""]
LoggedOut == [authenticated |-> FALSE, current_view |-> "", user |-> NoUser]

\* the environment without GEMINI_API_KEY, and with it
NoKey == ""
ApiKeys == {NoKey, "key"}

\* main() that dispatches on current_view without looking at 'authenticated'
main_without_login(ss) ==
    IF ss.current_view = "customer" THEN <<"init_db", "show_customer_dashboard">>
    ELSE <<"init_db", "show_admin_dashboard">>

\* main(): init_db, then the login page or the dashboard of current_view
main(ss) ==
    IF ~ss.authenticated THEN <<"init_db", "show_login_page">>
    ELSE IF ss.current_view = "admin" THEN <<"init_db", "show_admin_dashboard">>
    ELSE IF ss.current_view = "customer" THEN <<"init_db", "show_customer_dashboard">>
    ELSE <<"init_db">>

\* ScriptRun that goes on without the key
ScriptRunWithoutKeyCheck(key, ss) == <<"genai.configure">> \o main(ss)

\* what one run of app.py executes for a session whose state is ss, in order:
\* without the key, st.error and st.stop; with it, genai.configure and main()
ScriptRun(key, ss) ==
    IF key = NoKey THEN <<"st.error", "st.stop">>
    ELSE <<"genai.configure">> \o main(ss)

\* the page the latest run of session s ended on
PageShown(s) == IF run[s] = << >> THEN "none" ELSE run[s][Len(run[s])]
Dashboards == {"show_admin_dashboard", "show_customer_dashboard"}

\* no AI helper has been called
NoAi == [helper |-> "none", sess |-> "s1", outcome |-> [kind |-> "none", detail |-> ""],
         returned |-> << >>, error_shown |-> << >>]

\* no register_user call is between its SELECTs and its INSERT
NoReg == [pc |-> "idle", username |-> "", password |-> "", role |-> "", email |-> ""]
\* the outcome record of the login page
AuthOutcome(op, s, username, ok, msg) ==
    [op |-> op, sess |-> s, username |-> username, ok |-> ok, msg |-> msg]

\* the outcome record of an inventory handler
Outcome(op, s, id, ok, msg) ==
    [op |-> op, sess |-> s, id |-> id, ok |-> ok, msg |-> msg,
     success_count |-> 0, error_count |-> 0, errors |-> << >>]

\* status as the UPDATE handler and the CSV import compute it
StockStatus(quantity) == IF quantity > 0 THEN "In Stock" ELSE "Out of Stock"

\* a row of inventory_history
HistoryRow(hid, item_id, action, old_quantity, new_quantity, old_price, new_price) ==
    [id |-> hid, inventory_id |-> item_id, action |-> action,
     old_quantity |-> old_quantity, new_quantity |-> new_quantity,
     old_price |-> old_price, new_price |-> new_price]

\* a row of inventory
ItemRow(name, category, quantity, price, min_stock, status) ==
    [name |-> name, category |-> category, quantity |-> quantity, price |-> price,
     min_stock |-> min_stock, status |-> status]

\* f with key k added or replaced
Put(f, k, v) == [x \in DOMAIN f \cup {k} |-> IF x = k THEN v ELSE f[x]]
\* f without key k
Drop(f, k) == [x \in DOMAIN f \ {k} |-> f[x]]

Init ==
    /\ inventory = << >>
    /\ nextItemId = 1
    /\ history = << >>
    /\ nextHistId = 1
    /\ sess = [s \in Sessions |-> Idle]
    /\ lastInv = Outcome("none", "s1", 0, TRUE, "")
    /\ bookings = << >>
    /\ now = 0
    /\ uuidNext = 1
    /\ lastBook = [op |-> "none", flow |-> "", id |-> <<"", 0>>, ok |-> TRUE, msg |-> ""]
    /\ users = << >>
    /\ session_state = [s \in Sessions |-> LoggedOut]
    /\ reg = [s \in Sessions |-> NoReg]
    /\ lastAuth = AuthOutcome("none", "s1", "", TRUE, "")
    /\ api_key = "key"
    /\ run = [s \in Sessions |-> ScriptRun("key", LoggedOut)]
    /\ ai = NoAi

(* ----------------------- Add Single Item form --------------------------- *)
\* the status the form stores: the value of its Status selectbox
AddFormStatus(quantity, status) == status

AddItem(s, item_name, category, quantity, price, min_stock, status) ==
    /\ UNCHANGED <<bookVars, authVars, appVars>>
    /\ sess[s].pc = "idle"
    /\ IF item_name = "" \/ category = ""
       THEN /\ lastInv' = Outcome("add", s, 0, FALSE, "Item name and category are required!")
            /\ UNCHANGED <<inventory, nextItemId, history, nextHistId, sess>>
       ELSE /\ nextItemId <= MaxItems
            /\ nextHistId <= MaxHist
            /\ inventory' = Put(inventory, nextItemId,
                                ItemRow(item_name, category, quantity, price, min_stock,
                                        AddFormStatus(quantity, status)))
            /\ history' = Append(history,
                                 HistoryRow(nextHistId, nextItemId, "ADD", NULL, quantity, NULL, price))
            /\ nextItemId' = nextItemId + 1
            /\ nextHistId' = nextHistId + 1
            /\ lastInv' = Outcome("add", s, nextItemId, TRUE, "Item added successfully!")
            /\ UNCHANGED sess

(* ------------------- View Inventory: a script run ----------------------- *)
\* get_inventory_data: the run reads the table; the buttons of item `id` are
\* rendered from the row read, and one of them is the button that was pressed
LoadView(s, id) ==
    /\ UNCHANGED <<bookVars, authVars, appVars>>
    /\ sess[s].pc = "idle"
    /\ id \in DOMAIN inventory
    /\ sess' = [sess EXCEPT ![s] = [pc |-> "loaded",
                                    item |-> [id |-> id,
                                              quantity |-> inventory[id].quantity,
                                              price |-> inventory[id].price],
                                    df |-> NoDf]]
    /\ lastInv' = Outcome("view", s, id, TRUE, "")
    /\ UNCHANGED <<inventory, nextItemId, history, nextHistId>>

\* UPDATE inventory SET quantity, price, status WHERE id = ?  (no row: no effect)
UpdateRow(inv, id, new_quantity, new_price) ==
    IF id \in DOMAIN inv
    THEN [inv EXCEPT ![id] = [@ EXCEPT !.quantity = new_quantity,
                                       !.price = new_price,
                                       !.status = StockStatus(new_quantity)]]
    ELSE inv

\* the Update button of the item the run rendered
UpdateItem(s, new_quantity, new_price) ==
    LET item == sess[s].item IN
    /\ UNCHANGED <<bookVars, authVars, appVars>>
    /\ sess[s].pc = "loaded"
    /\ new_quantity # item.quantity \/ new_price # item.price
    /\ nextHistId <= MaxHist
    /\ inventory' = UpdateRow(inventory, item.id, new_quantity, new_price)
    /\ history' = Append(history,
                         HistoryRow(nextHistId, item.id, "UPDATE",
                                    item.quantity, new_quantity, item.price, new_price))
    /\ nextHistId' = nextHistId + 1
    /\ sess' = [sess EXCEPT ![s] = Idle]
    /\ lastInv' = Outcome("update", s, item.id, TRUE, "updated successfully!")
    /\ UNCHANGED nextItemId

(* ------------------------ delete_inventory_item ------------------------- *)
\* DeleteSelect without the `if item:` test: the handler goes on with the row the
\* page rendered
DeleteSelectUnchecked(s) ==
    /\ UNCHANGED <<bookVars, authVars, appVars>>
    /\ sess[s].pc = "loaded"
    /\ sess' = [sess EXCEPT ![s] = [pc |-> "deleting", item |-> sess[s].item, df |-> NoDf]]
    /\ lastInv' = Outcome("select", s, sess[s].item.id, TRUE, "")
    /\ UNCHANGED <<inventory, nextItemId, history, nextHistId>>

\* the Delete button: SELECT * FROM inventory WHERE id = ?; no row: "Item not found"
DeleteSelect(s) ==
    LET id == sess[s].item.id IN
    /\ UNCHANGED <<bookVars, authVars, appVars>>
    /\ sess[s].pc = "loaded"
    /\ IF id \in DOMAIN inventory
       THEN /\ sess' = [sess EXCEPT ![s] = [pc |-> "deleting",
                                            item |-> [id |-> id,
                                                      quantity |-> inventory[id].quantity,
                                                      price |-> inventory[id].price],
                                            df |-> NoDf]]
            /\ lastInv' = Outcome("select", s, id, TRUE, "")
       ELSE /\ sess' = [sess EXCEPT ![s] = Idle]
            /\ lastInv' = Outcome("delete", s, id, FALSE, "Item not found")
    /\ UNCHANGED <<inventory, nextItemId, history, nextHistId>>

\* DeleteCommit without the INSERT INTO inventory_history
DeleteCommitNoHistory(s) ==
    /\ UNCHANGED <<bookVars, authVars, appVars>>
    /\ sess[s].pc = "deleting"
    /\ inventory' = IF sess[s].item.id \in DOMAIN inventory
                    THEN Drop(inventory, sess[s].item.id) ELSE inventory
    /\ sess' = [sess EXCEPT ![s] = Idle]
    /\ lastInv' = Outcome("delete", s, sess[s].item.id, TRUE, "Item deleted successfully")
    /\ UNCHANGED <<nextItemId, history, nextHistId>>

\* DeleteCommit that also removes the history rows of the deleted item
DeleteCommitCascade(s) ==
    LET item == sess[s].item IN
    /\ UNCHANGED <<bookVars, authVars, appVars>>
    /\ sess[s].pc = "deleting"
    /\ nextHistId <= MaxHist
    /\ history' = Append(SelectSeq(history, LAMBDA h : h.inventory_id # item.id),
                         HistoryRow(nextHistId, item.id, "DELETE",
                                    item.quantity, 0, item.price, 0))
    /\ inventory' = IF item.id \in DOMAIN inventory THEN Drop(inventory, item.id)
                    ELSE inventory
    /\ nextHistId' = nextHistId + 1
    /\ sess' = [sess EXCEPT ![s] = Idle]
    /\ lastInv' = Outcome("delete", s, item.id, TRUE, "Item deleted successfully")
    /\ UNCHANGED nextItemId

\* INSERT INTO inventory_history (DELETE row); DELETE FROM inventory; commit
DeleteCommit(s) ==
    LET item == sess[s].item IN
    /\ UNCHANGED <<bookVars, authVars, appVars>>
    /\ sess[s].pc = "deleting"
    /\ nextHistId <= MaxHist
    /\ history' = Append(history,
                         HistoryRow(nextHistId, item.id, "DELETE",
                                    item.quantity, 0, item.price, 0))
    /\ inventory' = IF item.id \in DOMAIN inventory THEN Drop(inventory, item.id)
                    ELSE inventory
    /\ nextHistId' = nextHistId + 1
    /\ sess' = [sess EXCEPT ![s] = Idle]
    /\ lastInv' = Outcome("delete", s, item.id, TRUE, "Item deleted successfully")
    /\ UNCHANGED nextItemId

(* --------------------------- clear_inventory ---------------------------- *)
\* ClearAll without the DELETE FROM inventory_history
ClearAllItemsOnly(s) ==
    /\ UNCHANGED <<bookVars, authVars, appVars>>
    /\ sess[s].pc = "idle"
    /\ inventory' = << >>
    /\ lastInv' = Outcome("clear", s, 0, TRUE, "Inventory cleared successfully")
    /\ UNCHANGED <<history, nextItemId, nextHistId, sess>>

\* DELETE FROM inventory_history; DELETE FROM inventory; commit
ClearAll(s) ==
    /\ UNCHANGED <<bookVars, authVars, appVars>>
    /\ sess[s].pc = "idle"
    /\ history' = << >>
    /\ inventory' = << >>
    /\ lastInv' = Outcome("clear", s, 0, TRUE, "Inventory cleared successfully")
    /\ UNCHANGED <<nextItemId, nextHistId, sess>>

(* ------------------------------ Bulk Import ----------------------------- *)
\* a CSV cell of a numeric column: a number, a blank cell (NaN), or text
Num(n) == [kind |-> "num", val |-> n]
Blank == [kind |-> "blank", val |-> 0]
Text == [kind |-> "text", val |-> 0]

RequiredColumns == {"name", "category", "quantity", "price", "min_stock"}

CsvRow(name, category, quantity, price, min_stock) ==
    [name |-> name, category |-> category, quantity |-> quantity, price |-> price,
     min_stock |-> min_stock]

\* rows every check accepts, and rows with one offending cell
GoodRows == {CsvRow("oil", "Fluids", Num(q), Num(1), Num(0)) : q \in QtyVals}
BadRows ==
    {CsvRow(NullText, "Fluids", Num(1), Num(1), Num(0)),
     CsvRow("oil", NullText, Num(1), Num(1), Num(0))}
    \cup {CsvRow("oil", "Fluids", c, Num(1), Num(0)) : c \in {Num(-1), Blank, Text}}
    \cup {CsvRow("oil", "Fluids", Num(1), c, Num(0)) : c \in {Num(-1), Blank, Text}}
    \cup {CsvRow("oil", "Fluids", Num(1), Num(1), c) : c \in {Num(-1), Blank, Text}}
CsvRows == GoodRows \cup BadRows

SeqsUpTo(S, n) == UNION {[1..k -> S] : k \in 0..n}

\* the uploaded files of up to n rows: good rows with at most one offending
\* row among them, or a file that lacks one required column
DataFrames(n) ==
    {[columns |-> RequiredColumns, rows |-> r] :
        r \in {q \in SeqsUpTo(CsvRows, n) :
                  Cardinality({i \in 1..Len(q) : q[i] \in BadRows}) <= 1}}
    \cup {[columns |-> RequiredColumns \ {c}, rows |-> <<r>>] :
             c \in RequiredColumns, r \in GoodRows}

\* the files tried in the uploader
UploadableFiles == DataFrames(MaxBatch)

Cells(df, col) ==
    {CASE col = "quantity" -> df.rows[i].quantity
       [] col = "price" -> df.rows[i].price
       [] OTHER -> df.rows[i].min_stock : i \in 1..Len(df.rows)}

\* validate_inventory_csv without the test for negative values
validate_no_negative_test(df) ==
    LET numeric == Cells(df, "quantity") \cup Cells(df, "price") \cup Cells(df, "min_stock") IN
    IF RequiredColumns \ df.columns # {}
    THEN <<FALSE, "Missing required columns">>
    ELSE IF \E c \in numeric : c.kind = "text"
    THEN <<FALSE, "Invalid numeric values in quantity, price, or min_stock columns">>
    ELSE IF \E i \in 1..Len(df.rows) :
                df.rows[i].name = NullText \/ df.rows[i].category = NullText
    THEN <<FALSE, "Empty values found in name or category columns">>
    ELSE <<TRUE, "CSV validation successful">>

\* validate_inventory_csv: <<is_valid, message>>
validate_inventory_csv(df) ==
    LET numeric == Cells(df, "quantity") \cup Cells(df, "price") \cup Cells(df, "min_stock") IN
    IF RequiredColumns \ df.columns # {}
    THEN <<FALSE, "Missing required columns">>
    ELSE IF \E c \in numeric : c.kind = "text"
    THEN <<FALSE, "Invalid numeric values in quantity, price, or min_stock columns">>
    ELSE IF \E c \in numeric : c.kind = "num" /\ c.val < 0
    THEN <<FALSE, "Negative values found in quantity, price, or min_stock columns">>
    ELSE IF \E i \in 1..Len(df.rows) :
                df.rows[i].name = NullText \/ df.rows[i].category = NullText
    THEN <<FALSE, "Empty values found in name or category columns">>
    ELSE <<TRUE, "CSV validation successful">>

\* the row's INSERT raises: int() of a blank or text cell, float() of a text
\* cell, or NULL bound to a NOT NULL column
RowRaises(row) ==
    \/ row.quantity.kind # "num"
    \/ row.min_stock.kind # "num"
    \/ row.price.kind = "text"
    \/ row.name = NullText
    \/ row.category = NullText

\* float(row['price']): a blank cell is NaN, which sqlite3 binds as NULL
PriceOf(cell) == IF cell.kind = "num" THEN cell.val ELSE NULL

\* ImportRow whose except branch counts the failure but loses its message
ImportRowNoMessage(acc, row) ==
    IF RowRaises(row)
    THEN [acc EXCEPT !.error_count = @ + 1]
    ELSE [inv |-> Put(acc.inv, acc.nid,
                      ItemRow(row.name, row.category, row.quantity.val, PriceOf(row.price),
                              row.min_stock.val, StockStatus(row.quantity.val))),
          hist |-> Append(acc.hist,
                          HistoryRow(acc.hid, acc.nid, "ADD", NULL, row.quantity.val,
                                     NULL, PriceOf(row.price))),
          nid |-> acc.nid + 1,
          hid |-> acc.hid + 1,
          success_count |-> acc.success_count + 1,
          error_count |-> acc.error_count,
          errors |-> acc.errors]

\* ImportRow without the INSERT INTO inventory_history
ImportRowWithoutHistory(acc, row) ==
    IF RowRaises(row)
    THEN [acc EXCEPT !.error_count = @ + 1, !.errors = Append(@, row.name)]
    ELSE [inv |-> Put(acc.inv, acc.nid,
                      ItemRow(row.name, row.category, row.quantity.val, PriceOf(row.price),
                              row.min_stock.val, StockStatus(row.quantity.val))),
          hist |-> acc.hist,
          nid |-> acc.nid + 1,
          hid |-> acc.hid,
          success_count |-> acc.success_count + 1,
          error_count |-> acc.error_count,
          errors |-> acc.errors]

\* one pass of the loop of import_inventory_from_csv over row i
ImportRow(acc, row) ==
    IF RowRaises(row)
    THEN [acc EXCEPT !.error_count = @ + 1, !.errors = Append(@, row.name)]
    ELSE [inv |-> Put(acc.inv, acc.nid,
                      ItemRow(row.name, row.category, row.quantity.val, PriceOf(row.price),
                              row.min_stock.val, StockStatus(row.quantity.val))),
          hist |-> Append(acc.hist,
                          HistoryRow(acc.hid, acc.nid, "ADD", NULL, row.quantity.val,
                                     NULL, PriceOf(row.price))),
          nid |-> acc.nid + 1,
          hid |-> acc.hid + 1,
          success_count |-> acc.success_count + 1,
          error_count |-> acc.error_count,
          errors |-> acc.errors]

RECURSIVE ImportRows(_, _, _)
ImportRows(rows, i, acc) ==
    IF i > Len(rows) THEN acc ELSE ImportRows(rows, i + 1, ImportRow(acc, rows[i]))

\* import_inventory_from_csv: the tables and counts after the loop and the commit
import_inventory_from_csv(df, inv, hist, nid, hid) ==
    ImportRows(df.rows, 1,
               [inv |-> inv, hist |-> hist, nid |-> nid, hid |-> hid,
                success_count |-> 0, error_count |-> 0, errors |-> << >>])

\* a file arrives in the uploader: the run validates it and offers the Import
\* Items button only when it validates
Upload(s, df) ==
    LET v == validate_inventory_csv(df) IN
    /\ UNCHANGED <<bookVars, authVars, appVars>>
    /\ sess[s].pc = "idle"
    /\ sess' = [sess EXCEPT ![s] = [pc |-> "uploaded", item |-> NoItem, df |-> df]]
    /\ lastInv' = Outcome("validate", s, 0, v[1], v[2])
    /\ UNCHANGED <<inventory, nextItemId, history, nextHistId>>

\* the Import Items button
ImportItems(s) ==
    LET df == sess[s].df
        r == import_inventory_from_csv(df, inventory, history, nextItemId, nextHistId)
    IN
    /\ UNCHANGED <<bookVars, authVars, appVars>>
    /\ sess[s].pc = "uploaded"
    /\ validate_inventory_csv(df)[1]
    /\ r.nid <= MaxItems + 1
    /\ r.hid <= MaxHist + 1
    /\ inventory' = r.inv
    /\ history' = r.hist
    /\ nextItemId' = r.nid
    /\ nextHistId' = r.hid
    /\ sess' = [sess EXCEPT ![s] = Idle]
    /\ lastInv' = [Outcome("import", s, nextItemId, TRUE, "Import completed")
                     EXCEPT !.success_count = r.success_count,
                            !.error_count = r.error_count,
                            !.errors = r.errors]

\* the file is taken out of the uploader without an import
Dismiss(s) ==
    /\ UNCHANGED <<bookVars, authVars, appVars>>
    /\ sess[s].pc = "uploaded"
    /\ sess' = [sess EXCEPT ![s] = Idle]
    /\ lastInv' = Outcome("dismiss", s, 0, TRUE, "")
    /\ UNCHANGED <<inventory, nextItemId, history, nextHistId>>

\* the Add Single Item form with every choice of quantity and Status, at one price
AddStepStatus(s) ==
    \E n \in ItemNames \cup {""}, c \in Categories, q \in QtyVals,
       m \in MinStockVals, st \in Statuses : AddItem(s, n, c, q, 1, m, st)

\* the Add Single Item form with its Status selectbox left at the first option
AddStepDefault(s) ==
    \E n \in ItemNames \cup {""}, c \in Categories, q \in QtyVals, p \in PriceVals,
       m \in MinStockVals : AddItem(s, n, c, q, p, m, "In Stock")

\* the inventory ledger as two admin sessions edit it item by item
NextInv ==
    \E s \in Sessions :
        \/ AddStepDefault(s)
        \/ \E id \in 1..MaxItems : LoadView(s, id)
        \/ \E q \in QtyVals, p \in PriceVals : UpdateItem(s, q, p)
        \/ DeleteSelect(s)
        \/ DeleteCommit(s)
        \/ ClearAll(s)

SpecInv == Init /\ [][NextInv]_vars

\* the insertions into the ledger: the form, the CSV import, and the clear
ImportSessions == {"s1"}

NextImport ==
    \E s \in ImportSessions :
        \/ AddStepStatus(s)
        \/ \E df \in UploadableFiles : Upload(s, df)
        \/ ImportItems(s)
        \/ Dismiss(s)
        \/ ClearAll(s)

SpecImport == Init /\ [][NextImport]_vars

(* ------------------------------- bookings ------------------------------- *)
\* ticks of the clock in one second: strftime('%Y%m%d%H%M%S') drops the rest
TicksPerSecond == 2

Customers == {"alice", "bob"}
BookingStatuses == {"Pending", "In Progress", "Completed", "Cancelled"}
\* one slot of the car and motorcycle forms, one of the booking page
FormSlots == {"09:00 AM - 11:00 AM"}
PageSlots == {"09:00 AM"}
PageVehicleTypes == {"Car", "Bike"}
Today == 0
\* the dates tried on the booking page: today and the day after
PageDates == {Today, Today + 1}

\* str(uuid.uuid4()): a value that no earlier call returned
Uuid4(n) == <<"uuid", n>>
\* f"BK{datetime.now().strftime('%Y%m%d%H%M%S')}": the clock cut to the second
BookingIdOfClock(t) == <<"BK", t \div TicksPerSecond>>

BookingRow(customer_name, vehicle_type, booking_date, time_slot, status) ==
    [customer_name |-> customer_name, vehicle_type |-> vehicle_type,
     vehicle_number |-> "KA01", service_type |-> "Repair",
     booking_date |-> booking_date, time_slot |-> time_slot, status |-> status]

\* the row the car form inserts
CarBookingRow(customer_name, time_slot) ==
    BookingRow(customer_name, "Car", Today, time_slot, "Pending")
\* the row the motorcycle form inserts
BikeBookingRow(customer_name, time_slot) ==
    BookingRow(customer_name, "Motorcycle", Today, time_slot, "Pending")
\* PageBookingRow taking the status from a status field of the form
PageBookingRowConfirmed(customer_name, vehicle_type, date, time_slot) ==
    BookingRow(customer_name, vehicle_type, date, time_slot, "In Progress")
\* the row the booking page inserts
PageBookingRow(customer_name, vehicle_type, date, time_slot) ==
    BookingRow(customer_name, vehicle_type, date, time_slot, "Pending")

BookOutcome(op, flow, id, ok, msg) ==
    [op |-> op, flow |-> flow, id |-> id, ok |-> ok, msg |-> msg]

\* INSERT INTO bookings: booking_id is the PRIMARY KEY
InsertBooking(flow, id, row) ==
    IF id \in DOMAIN bookings
    THEN /\ lastBook' = BookOutcome("create", flow, id, FALSE,
                                    "UNIQUE constraint failed: bookings.booking_id")
         /\ UNCHANGED bookings
    ELSE /\ bookings' = Put(bookings, id, row)
         /\ lastBook' = BookOutcome("create", flow, id, TRUE, "Service booked successfully!")

\* show_car_service_form, Book Service; has_details: the initial form was filled
CarBooking(has_details, customer_name, time_slot) ==
    /\ UNCHANGED <<invVars, authVars, appVars>>
    /\ IF ~has_details
       THEN /\ lastBook' = BookOutcome("create", "car", <<"", 0>>, FALSE,
                                       "Error booking service: 'customer_name'")
            /\ UNCHANGED <<bookings, now, uuidNext>>
       ELSE /\ uuidNext <= MaxUuid
            /\ InsertBooking("car", Uuid4(uuidNext), CarBookingRow(customer_name, time_slot))
            /\ uuidNext' = uuidNext + 1
            /\ UNCHANGED now

\* show_bike_service_form, Book Service
BikeBooking(has_details, customer_name, time_slot) ==
    /\ UNCHANGED <<invVars, authVars, appVars>>
    /\ IF ~has_details
       THEN /\ lastBook' = BookOutcome("create", "bike", <<"", 0>>, FALSE,
                                       "Error booking service: 'customer_name'")
            /\ UNCHANGED <<bookings, now, uuidNext>>
       ELSE /\ uuidNext <= MaxUuid
            /\ InsertBooking("bike", Uuid4(uuidNext), BikeBookingRow(customer_name, time_slot))
            /\ uuidNext' = uuidNext + 1
            /\ UNCHANGED now

\* show_booking_form of the booking page, Book Service
PageBooking(customer_name, vehicle_type, date, time_slot) ==
    /\ UNCHANGED <<invVars, authVars, appVars>>
    /\ IF customer_name = ""
       THEN /\ lastBook' = BookOutcome("create", "page", <<"", 0>>, FALSE,
                                       "Please fill in all required fields.")
            /\ UNCHANGED bookings
       ELSE InsertBooking("page", BookingIdOfClock(now),
                          PageBookingRow(customer_name, vehicle_type, date, time_slot))
    /\ UNCHANGED <<now, uuidNext>>

\* UpdateStatus without its WHERE clause
UpdateStatusEveryRow(bk, booking_id, new_status) ==
    [id \in DOMAIN bk |-> [bk[id] EXCEPT !.status = new_status]]

\* UPDATE bookings SET status = ? WHERE booking_id = ?  (no row: no effect)
UpdateStatus(bk, booking_id, new_status) ==
    IF booking_id \in DOMAIN bk
    THEN [bk EXCEPT ![booking_id] = [@ EXCEPT !.status = new_status]]
    ELSE bk

\* the outcome record of a status update: the session that pressed the button
StatusOutcome(s, flow, booking_id, new_status, msg) ==
    [op |-> "status", flow |-> flow, sess |-> s, id |-> booking_id,
     new_status |-> new_status, ok |-> TRUE, msg |-> msg]

\* AdminDashboardShown for every authenticated session
DashboardShownToAnyone(s) == session_state[s].authenticated

\* main() shows the admin dashboard to session s
AdminDashboardShown(s) ==
    session_state[s].authenticated /\ session_state[s].current_view = "admin"
\* main() shows the customer dashboard to session s
CustomerDashboardShown(s) ==
    session_state[s].authenticated /\ session_state[s].current_view = "customer"

\* the Update Status form of the admin dashboard: the id is picked from the
\* booking ids the run has read from the table
SetStatus(s, booking_id, new_status) ==
    /\ UNCHANGED <<invVars, authVars, appVars>>
    /\ AdminDashboardShown(s)
    /\ booking_id \in DOMAIN bookings
    /\ bookings' = UpdateStatus(bookings, booking_id, new_status)
    /\ lastBook' = StatusOutcome(s, "admin", booking_id, new_status,
                                 "Booking status updated successfully!")
    /\ UNCHANGED <<now, uuidNext>>

\* the clock advances, up to `limit` ticks
TickUpTo(limit) ==
    /\ UNCHANGED <<invVars, authVars, appVars>>
    /\ now < limit
    /\ now' = now + 1
    /\ UNCHANGED <<bookings, uuidNext, lastBook>>

\* time passes
Tick == TickUpTo(MaxTime)

BookingIds == {Uuid4(n) : n \in 1..MaxUuid} \cup {BookingIdOfClock(t) : t \in 0..MaxTime}

CarStep == \E d \in BOOLEAN, c \in Customers, ts \in FormSlots : CarBooking(d, c, ts)
BikeStep == \E d \in BOOLEAN, c \in Customers, ts \in FormSlots : BikeBooking(d, c, ts)
PageStep ==
    \E c \in Customers \cup {""}, v \in PageVehicleTypes, d \in PageDates,
       ts \in PageSlots : PageBooking(c, v, d, ts)

\* the three booking flows of the customers, as time passes
NextBook ==
    \/ CarStep
    \/ BikeStep
    \/ PageStep
    \/ Tick

SpecBook == Init /\ [][NextBook]_vars

(* --------------------- users, login and registration -------------------- *)
Roles == {"admin", "customer"}
Usernames == {"alice", "bob"}
Passwords == {"pw", "pw2"}
\* the Email (optional) field: left blank, or one address
Emails == {"", "a@x.org"}

\* hashlib.sha256(password.encode()).hexdigest(): the digest of the password
hash_password(password) == <<"sha256", password>>
\* verify_password that accepts every password
verify_password_any(password, hashed) == TRUE
verify_password(password, hashed) == hash_password(password) = hashed

\* a row of users
UserRow(username, password, role, email) ==
    [username |-> username, password |-> password, role |-> role, email |-> email]

\* SELECT ... FROM users WHERE username = ?
UsersNamed(tbl, username) == {id \in DOMAIN tbl : tbl[id].username = username}
\* SELECT email FROM users WHERE email = ?
UsersWithEmail(tbl, email) == {id \in DOMAIN tbl : tbl[id].email = email}

\* register_user_checks that tests the email only
register_user_checks_email_only(tbl, username, email) ==
    IF email # "" /\ UsersWithEmail(tbl, email) # {}
    THEN <<FALSE, "Email already registered">>
    ELSE <<TRUE, "">>

\* register_user up to its INSERT: <<passed, message>>
register_user_checks(tbl, username, email) ==
    IF UsersNamed(tbl, username) # {}
    THEN <<FALSE, "Username already exists">>
    ELSE IF email # "" /\ UsersWithEmail(tbl, email) # {}
    THEN <<FALSE, "Email already registered">>
    ELSE <<TRUE, "">>

\* the register form and register_user up to its INSERT; the SELECTs run
\* outside a transaction, so another session may commit before the INSERT
RegisterCheck(s, username, password, confirm_password, selected_role, email) ==
    /\ UNCHANGED <<invVars, bookVars, appVars>>
    /\ PageShown(s) = "show_login_page"
    /\ ~session_state[s].authenticated
    /\ reg[s].pc = "idle"
    /\ UNCHANGED <<users, session_state>>
    /\ IF username = "" \/ password = "" \/ confirm_password = ""
       THEN /\ lastAuth' = AuthOutcome("register", s, username, FALSE,
                                       "Please fill in all required fields")
            /\ UNCHANGED reg
       ELSE IF password # confirm_password
       THEN /\ lastAuth' = AuthOutcome("register", s, username, FALSE,
                                       "Passwords do not match")
            /\ UNCHANGED reg
       ELSE LET c == register_user_checks(users, username, email) IN
            IF ~c[1]
            THEN /\ lastAuth' = AuthOutcome("register", s, username, FALSE, c[2])
                 /\ UNCHANGED reg
            ELSE /\ reg' = [reg EXCEPT ![s] =
                              [pc |-> "insert", username |-> username,
                               password |-> password, role |-> selected_role,
                               email |-> email]]
                 /\ lastAuth' = AuthOutcome("select", s, username, TRUE, "")

\* InsertUser into a table whose username column is not UNIQUE
InsertUserUniqueEmailOnly(tbl, id, row) ==
    IF UsersWithEmail(tbl, row.email) # {}
    THEN <<FALSE, "UNIQUE constraint failed: users.email", tbl>>
    ELSE <<TRUE, "User registered successfully", Put(tbl, id, row)>>

\* INSERT INTO users: user_id PRIMARY KEY, username UNIQUE, email UNIQUE (the
\* blank string is a value like any other); the email index is tested first
InsertUser(tbl, id, row) ==
    IF UsersWithEmail(tbl, row.email) # {}
    THEN <<FALSE, "UNIQUE constraint failed: users.email", tbl>>
    ELSE IF UsersNamed(tbl, row.username) # {}
    THEN <<FALSE, "UNIQUE constraint failed: users.username", tbl>>
    ELSE <<TRUE, "User registered successfully", Put(tbl, id, row)>>

\* register_user from hash_password to its return
RegisterInsert(s) ==
    /\ UNCHANGED <<invVars, bookings, now, lastBook, appVars>>
    /\ reg[s].pc = "insert"
    /\ uuidNext <= MaxUuid
    /\ LET r == reg[s]
           ins == InsertUser(users, Uuid4(uuidNext),
                             UserRow(r.username, hash_password(r.password), r.role, r.email))
       IN /\ users' = ins[3]
          /\ lastAuth' = AuthOutcome("register", s, r.username, ins[1], ins[2])
    /\ uuidNext' = uuidNext + 1
    /\ reg' = [reg EXCEPT ![s] = NoReg]
    /\ UNCHANGED session_state

\* the outcome record of the login form, with what was entered
LoginOutcome(s, username, password, selected_role, ok, msg) ==
    [op |-> "login", sess |-> s, username |-> username, password |-> password,
     selected_role |-> selected_role, ok |-> ok, msg |-> msg]

\* f"Invalid role. Please use {selected_role} login."
InvalidRoleMessage(selected_role) ==
    IF selected_role = "admin" THEN "Invalid role. Please use admin login."
    ELSE "Invalid role. Please use customer login."

\* authenticate_user: [ok, msg, user]
authenticate_user(tbl, username, password) ==
    IF UsersNamed(tbl, username) = {}
    THEN [ok |-> FALSE, msg |-> "User not found", user |-> NoUser]
    ELSE LET id == CHOOSE i \in UsersNamed(tbl, username) : TRUE IN
         IF ~verify_password(password, tbl[id].password)
         THEN [ok |-> FALSE, msg |-> "Invalid password", user |-> NoUser]
         ELSE [ok |-> TRUE, msg |-> "",
               user |-> [user_id |-> id, username |-> tbl[id].username,
                         role |-> tbl[id].role, email |-> tbl[id].email]]

\* the login form without its comparison of the two roles
LoginAnyPortal(s, username, password, selected_role) ==
    /\ UNCHANGED <<invVars, bookVars, api_key, ai>>
    /\ PageShown(s) = "show_login_page"
    /\ ~session_state[s].authenticated
    /\ reg[s].pc = "idle"
    /\ UNCHANGED <<users, reg>>
    /\ IF username = "" \/ password = ""
       THEN /\ lastAuth' = LoginOutcome(s, username, password, selected_role, FALSE,
                                        "Please fill in all fields")
            /\ UNCHANGED <<session_state, run>>
       ELSE LET a == authenticate_user(users, username, password) IN
            IF ~a.ok
            THEN /\ lastAuth' = LoginOutcome(s, username, password, selected_role, FALSE, a.msg)
                 /\ UNCHANGED <<session_state, run>>
            ELSE /\ session_state' = [session_state EXCEPT ![s] =
                        [authenticated |-> TRUE, current_view |-> a.user.role,
                         user |-> a.user]]
                 /\ lastAuth' = LoginOutcome(s, username, password, selected_role, TRUE, "")
                 /\ run' = [run EXCEPT ![s] = ScriptRun(api_key, session_state'[s])]

\* show_login_page, login_form; selected_role: the Admin Mode toggle
Login(s, username, password, selected_role) ==
    /\ UNCHANGED <<invVars, bookVars, api_key, ai>>
    /\ PageShown(s) = "show_login_page"
    /\ ~session_state[s].authenticated
    /\ reg[s].pc = "idle"
    /\ UNCHANGED <<users, reg>>
    /\ IF username = "" \/ password = ""
       THEN /\ lastAuth' = LoginOutcome(s, username, password, selected_role, FALSE,
                                        "Please fill in all fields")
            /\ UNCHANGED <<session_state, run>>
       ELSE LET a == authenticate_user(users, username, password) IN
            IF ~a.ok
            THEN /\ lastAuth' = LoginOutcome(s, username, password, selected_role, FALSE, a.msg)
                 /\ UNCHANGED <<session_state, run>>
            ELSE IF a.user.role # selected_role
            THEN /\ lastAuth' = LoginOutcome(s, username, password, selected_role, FALSE,
                                             InvalidRoleMessage(selected_role))
                 /\ UNCHANGED <<session_state, run>>
            ELSE /\ session_state' = [session_state EXCEPT ![s] =
                        [authenticated |-> TRUE, current_view |-> a.user.role,
                         user |-> a.user]]
                 /\ lastAuth' = LoginOutcome(s, username, password, selected_role, TRUE, "")
                 /\ run' = [run EXCEPT ![s] = ScriptRun(api_key, session_state'[s])]

\* the Logout button of either dashboard: session_state.clear() and a rerun,
\* in which main() sets 'authenticated' to False
Logout(s) ==
    /\ UNCHANGED <<invVars, bookVars, api_key, ai>>
    /\ PageShown(s) \in Dashboards
    /\ session_state[s].authenticated
    /\ session_state' = [session_state EXCEPT ![s] = LoggedOut]
    /\ run' = [run EXCEPT ![s] = ScriptRun(api_key, session_state'[s])]
    /\ lastAuth' = AuthOutcome("logout", s, session_state[s].user.username, TRUE, "")
    /\ UNCHANGED <<users, reg>>

\* the register form: filled in, or with a field left blank or mistyped
RegisterStep(s) ==
    \/ \E u \in Usernames, p \in Passwords, r \in Roles, e \in Emails :
          RegisterCheck(s, u, p, p, r, e)
    \/ RegisterCheck(s, "", "pw", "pw", "customer", "")
    \/ RegisterCheck(s, "alice", "pw", "pw2", "customer", "")
\* the login form: filled in, or with the username left blank
LoginStep(s) ==
    \/ \E u \in Usernames, p \in Passwords, r \in Roles : Login(s, u, p, r)
    \/ Login(s, "", "pw", "customer")

\* the browser session that registers and logs in, one user after the other
AuthSessions == {"s1"}

\* the login page, and the Logout button of the dashboards
NextAuth ==
    \E s \in AuthSessions :
        \/ RegisterStep(s)
        \/ RegisterInsert(s)
        \/ LoginStep(s)
        \/ Logout(s)
SpecAuth == Init /\ [][NextAuth]_vars

(* --------------- booking lists, slots and status updates ---------------- *)
\* the orders in which a SELECT may return the rows of S
Perms(S) ==
    {q \in [1..Cardinality(S) -> S] : \A i, j \in 1..Cardinality(S) : i # j => q[i] # q[j]}

\* WHERE customer_name = ?
BookingsOf(bk, customer_name) == {id \in DOMAIN bk : bk[id].customer_name = customer_name}

\* StatusRank with Pending ahead of In Progress
StatusRankPendingFirst(status) ==
    CASE status = "Pending" -> 1
      [] status = "In Progress" -> 2
      [] status = "Completed" -> 3
      [] status = "Cancelled" -> 4
      [] OTHER -> 0

\* CASE WHEN status = 'In Progress' THEN 1 ... END (no ELSE: NULL, sorted first)
StatusRank(status) ==
    CASE status = "In Progress" -> 1
      [] status = "Pending" -> 2
      [] status = "Completed" -> 3
      [] status = "Cancelled" -> 4
      [] OTHER -> 0

\* ORDER BY CASE ... END, booking_date DESC: row a may come before row b
HistoryOrder(bk, a, b) ==
    \/ StatusRank(bk[a].status) < StatusRank(bk[b].status)
    \/ /\ StatusRank(bk[a].status) = StatusRank(bk[b].status)
       /\ bk[a].booking_date >= bk[b].booking_date

\* the SELECT of show_booking_history: the row orders it may return (rows that
\* tie on the sort key come in any order)
booking_history_query(bk, customer_name) ==
    {q \in Perms(BookingsOf(bk, customer_name)) :
        \A i, j \in 1..Len(q) : i < j => HistoryOrder(bk, q[i], q[j])}

\* the cards show_booking_history renders: active, completed, cancelled
booking_history_cards(bk, q) ==
    LET Active(id) == bk[id].status \in {"Pending", "In Progress"}
        Completed(id) == bk[id].status = "Completed"
        Cancelled(id) == bk[id].status = "Cancelled"
    IN SelectSeq(q, Active) \o SelectSeq(q, Completed) \o SelectSeq(q, Cancelled)

\* the SELECT of show_service_status: ORDER BY booking_date DESC
service_status_query(bk, customer_name) ==
    {q \in Perms(BookingsOf(bk, customer_name)) :
        \A i, j \in 1..Len(q) : i < j => bk[q[i]].booking_date >= bk[q[j]].booking_date}

\* the expanders show_service_status renders: active bookings, then the rest
service_status_cards(bk, q) ==
    LET Active(id) == bk[id].status \notin {"Completed", "Cancelled"}
        Finished(id) == bk[id].status \in {"Completed", "Cancelled"}
    IN SelectSeq(q, Active) \o SelectSeq(q, Finished)

\* what a page listed for a customer
ListOutcome(page, customer_name, rows) ==
    [op |-> "list", flow |-> page, id |-> <<"", 0>>, ok |-> TRUE, msg |-> "",
     customer_name |-> customer_name, rows |-> rows]

\* show_booking_history, reached from the customer dashboard
BookingHistory(s, customer_name) ==
    /\ UNCHANGED <<invVars, authVars, appVars>>
    /\ CustomerDashboardShown(s)
    /\ customer_name # ""
    /\ \E q \in booking_history_query(bookings, customer_name) :
          lastBook' = ListOutcome("booking_history", customer_name,
                                  booking_history_cards(bookings, q))
    /\ UNCHANGED <<bookings, now, uuidNext>>

\* show_service_status, reached from the customer dashboard; its Update Status
\* button is rendered when current_view is 'admin'
ServiceStatus(s, customer_name, booking_id, new_status) ==
    /\ UNCHANGED <<invVars, authVars, appVars>>
    /\ CustomerDashboardShown(s)
    /\ customer_name # ""
    /\ \E q \in service_status_query(bookings, customer_name) :
          IF /\ q # << >>
             /\ session_state[s].current_view = "admin"
             /\ \E i \in 1..Len(q) : q[i] = booking_id
          THEN /\ bookings' = UpdateStatus(bookings, booking_id, new_status)
               /\ lastBook' = StatusOutcome(s, "service_status", booking_id, new_status,
                                            "Status updated successfully!")
          ELSE /\ lastBook' = ListOutcome("service_status", customer_name,
                                          service_status_cards(bookings, q))
               /\ UNCHANGED bookings
    /\ UNCHANGED <<now, uuidNext>>

\* "Assuming max 3 bookings per slot"
SlotCapacity == 3

\* slot_count that ignores the date
slot_count_any_date(bk, date, time_slot) ==
    Cardinality({id \in DOMAIN bk : bk[id].time_slot = time_slot})

\* SELECT COUNT(*) FROM bookings WHERE booking_date=? AND time_slot=?
slot_count(bk, date, time_slot) ==
    Cardinality({id \in DOMAIN bk :
                    bk[id].booking_date = date /\ bk[id].time_slot = time_slot})

\* the availability line of the booking page for the date and slot selected
SlotCheck(date, time_slot) ==
    /\ UNCHANGED <<invVars, authVars, appVars>>
    /\ LET n == slot_count(bookings, date, time_slot) IN
       lastBook' =
          IF n >= SlotCapacity
          THEN [op |-> "slots", flow |-> "page", id |-> <<"", 0>>, ok |-> FALSE,
                msg |-> "This slot is fully booked. Please select another time.",
                date |-> date, time_slot |-> time_slot, slots_available |-> NULL]
          ELSE [op |-> "slots", flow |-> "page", id |-> <<"", 0>>, ok |-> TRUE,
                msg |-> "slots available",
                date |-> date, time_slot |-> time_slot,
                slots_available |-> SlotCapacity - n]
    /\ UNCHANGED <<bookings, now, uuidNext>>

(* the admin and a customer at work on the bookings *)
MaxStatusTime == 2   \* ticks of the clock while statuses are set

\* the account each session signs up and logs in with
AccountOf(s) ==
    IF s = "s1" THEN [username |-> "bob", role |-> "admin", email |-> ""]
    ELSE [username |-> "alice", role |-> "customer", email |-> "a@x.org"]

SignUp(s) ==
    RegisterCheck(s, AccountOf(s).username, "pw", "pw", AccountOf(s).role, AccountOf(s).email)
SignIn(s) == \E r \in Roles : Login(s, AccountOf(s).username, "pw", r)
BookStep == \E ts \in PageSlots : PageBooking("alice", "Car", Today, ts)
SetStatusStep(s) ==
    \E id \in BookingIds, st \in BookingStatuses : SetStatus(s, id, st)
ServiceStatusStep(s) ==
    \E id \in BookingIds : ServiceStatus(s, "alice", id, "Completed")

NextStatus ==
    \/ \E s \in Sessions :
          \/ SignUp(s)
          \/ RegisterInsert(s)
          \/ SignIn(s)
          \/ Logout(s)
          \/ SetStatusStep(s)
          \/ ServiceStatusStep(s)
    \/ BookStep
    \/ TickUpTo(MaxStatusTime)
SpecStatus == Init /\ [][NextStatus]_vars

(* the booking page and its availability line *)
MaxSlotTime == 6     \* ticks of the clock while slots fill up

SlotBookStep ==
    \E d \in PageDates, ts \in PageSlots : PageBooking("alice", "Car", d, ts)
SlotCheckStep == \E d \in PageDates, ts \in PageSlots : SlotCheck(d, ts)

NextSlots ==
    \/ SlotBookStep
    \/ SlotCheckStep
    \/ TickUpTo(MaxSlotTime)
SpecSlots == Init /\ [][NextSlots]_vars

(* the two pages that list a customer's bookings *)
MaxListTime == 4     \* ticks of the clock while bookings are listed

\* the user record the login form stores in session_state['user']
SessionUser(id, account) ==
    [user_id |-> id, username |-> account.username, role |-> account.role,
     email |-> account.email]

\* the state once bob (admin, session s1) and alice (customer, session s2)
\* have signed up and logged in, in this order, and nothing is booked yet
InitList ==
    /\ inventory = << >>
    /\ nextItemId = 1
    /\ history = << >>
    /\ nextHistId = 1
    /\ sess = [s \in Sessions |-> Idle]
    /\ lastInv = Outcome("none", "s1", 0, TRUE, "")
    /\ bookings = << >>
    /\ now = 0
    /\ uuidNext = 3
    /\ lastBook = [op |-> "none", flow |-> "", id |-> <<"", 0>>, ok |-> TRUE, msg |-> ""]
    /\ users = (Uuid4(1) :> UserRow("bob", hash_password("pw"), "admin", "")
                @@ Uuid4(2) :> UserRow("alice", hash_password("pw"), "customer", "a@x.org"))
    /\ session_state =
          [s \in Sessions |->
              [authenticated |-> TRUE, current_view |-> AccountOf(s).role,
               user |-> SessionUser(IF s = "s1" THEN Uuid4(1) ELSE Uuid4(2), AccountOf(s))]]
    /\ reg = [s \in Sessions |-> NoReg]
    /\ lastAuth = LoginOutcome("s2", "alice", "pw", "customer", TRUE, "")
    /\ api_key = "key"
    /\ run = [s \in Sessions |-> ScriptRun("key", session_state[s])]
    /\ ai = NoAi

ListBookStep ==
    \E c \in Customers, d \in PageDates, ts \in PageSlots : PageBooking(c, "Car", d, ts)
BookingHistoryStep(s) == \E c \in Customers : BookingHistory(s, c)
ServiceStatusListStep(s) ==
    \E c \in Customers : ServiceStatus(s, c, BookingIdOfClock(0), "Completed")
SetStatusListStep(s) ==
    \E id \in DOMAIN bookings, st \in BookingStatuses : SetStatus(s, id, st)

NextList ==
    \/ ListBookStep
    \/ TickUpTo(MaxListTime)
    \/ \E s \in Sessions :
          \/ SetStatusListStep(s)
          \/ BookingHistoryStep(s)
          \/ ServiceStatusListStep(s)
SpecList == InitList /\ [][NextList]_vars

(* ------------------- the AI helpers and the script run ------------------ *)
\* what model.generate_content does: a response with text, a response without
\* a usable text attribute, or an exception
GatewayErrors == {"quota exceeded", "connection reset"}
GatewayOutcomes ==
    {[kind |-> "text", detail |-> "advice"],
     [kind |-> "no_text", detail |-> "object has no attribute 'text'"]}
    \cup {[kind |-> "raises", detail |-> e] : e \in GatewayErrors}

\* each helper returns a string, given as the sequence of its parts
get_auto_assist_response(o) ==
    IF o.kind = "text" THEN <<o.detail>>
    ELSE IF o.kind = "no_text"
    THEN <<"I apologize, but I received an invalid response from the AI service. Please try again later.">>
    ELSE <<"I apologize, but I'm currently unable to provide AI assistance. Please try again later or contact our support team.">>

get_service_recommendations(o) ==
    IF o.kind = "text" THEN <<o.detail>>
    ELSE <<"Error getting service recommendations: ", o.detail>>

get_diagnostic_insights(o) ==
    IF o.kind = "text" THEN <<o.detail>>
    ELSE <<"Error getting diagnostic insights: ", o.detail>>

get_staff_assistance(o) ==
    IF o.kind = "text" THEN <<o.detail>>
    ELSE <<"Error getting staff assistance: ", o.detail>>

generate_chat_response(o) ==
    IF o.kind = "text" THEN <<o.detail>>
    ELSE IF o.kind = "no_text"
    THEN <<"I apologize, but I'm having trouble generating a response right now. Please try rephrasing your question or contact our support team directly.">>
    ELSE <<"I apologize, but I encountered an error: ", o.detail,
           ". Please try again or contact our support team for assistance.">>

\* pages/customer/support.py
get_chat_response(o) ==
    IF o.kind = "text" THEN <<o.detail>>
    ELSE <<"I apologize, but I'm having trouble processing your request. Please try again or contact our support team. Error: ",
           o.detail>>

\* pages/customer/booking.py: response.text, or str(e)
get_service_recommendation(o) == <<o.detail>>

AiHelpers ==
    {"get_auto_assist_response", "get_service_recommendations", "get_diagnostic_insights",
     "get_staff_assistance", "generate_chat_response", "get_chat_response",
     "get_service_recommendation"}

\* what the helper returns to its caller
AiReturn(helper, o) ==
    CASE helper = "get_auto_assist_response" -> get_auto_assist_response(o)
      [] helper = "get_service_recommendations" -> get_service_recommendations(o)
      [] helper = "get_diagnostic_insights" -> get_diagnostic_insights(o)
      [] helper = "get_staff_assistance" -> get_staff_assistance(o)
      [] helper = "generate_chat_response" -> generate_chat_response(o)
      [] helper = "get_chat_response" -> get_chat_response(o)
      [] OTHER -> get_service_recommendation(o)

\* the dashboards whose pages call the helper
HelperPages(helper) ==
    IF helper = "get_staff_assistance" THEN {"show_admin_dashboard"}
    ELSE IF helper \in {"get_auto_assist_response", "get_diagnostic_insights"} THEN Dashboards
    ELSE {"show_customer_dashboard"}

\* a button of a dashboard calls the helper, and the gateway answers with o
AskAI(s, helper, o) ==
    /\ UNCHANGED <<invVars, bookVars, authVars, api_key, run>>
    /\ PageShown(s) \in HelperPages(helper)
    /\ ai' = [helper |-> helper, sess |-> s, outcome |-> o,
              returned |-> AiReturn(helper, o),
              error_shown |-> IF helper = "get_auto_assist_response" /\ o.kind = "raises"
                              THEN <<"Error generating AI response: ", o.detail>>
                              ELSE << >>]

\* a browser session opens the application: the first run of the script
OpenApp(s) ==
    /\ UNCHANGED <<invVars, bookVars, authVars, api_key, ai>>
    /\ run[s] = << >>
    /\ run' = [run EXCEPT ![s] = ScriptRun(api_key, session_state[s])]

\* the process starts with or without the key; no session has run the script
InitApp ==
    /\ inventory = << >>
    /\ nextItemId = 1
    /\ history = << >>
    /\ nextHistId = 1
    /\ sess = [s \in Sessions |-> Idle]
    /\ lastInv = Outcome("none", "s1", 0, TRUE, "")
    /\ bookings = << >>
    /\ now = 0
    /\ uuidNext = 1
    /\ lastBook = [op |-> "none", flow |-> "", id |-> <<"", 0>>, ok |-> TRUE, msg |-> ""]
    /\ users = << >>
    /\ session_state = [s \in Sessions |-> LoggedOut]
    /\ reg = [s \in Sessions |-> NoReg]
    /\ lastAuth = AuthOutcome("none", "s1", "", TRUE, "")
    /\ api_key \in ApiKeys
    /\ run = [s \in Sessions |-> << >>]
    /\ ai = NoAi

AskStep(s) == \E h \in AiHelpers, o \in GatewayOutcomes : AskAI(s, h, o)

\* an admin and a customer open the application, sign up, log in, ask the AI
\* helpers of their dashboards, and log out
NextApp ==
    \E s \in Sessions :
        \/ OpenApp(s)
        \/ SignUp(s)
        \/ RegisterInsert(s)
        \/ SignIn(s)
        \/ Logout(s)
        \/ AskStep(s)
SpecApp == InitApp /\ [][NextApp]_vars

\* two browser sessions fill in the register form at the same time
RaceRegisterStep(s) ==
    \E u \in Usernames, e \in Emails : RegisterCheck(s, u, "pw", "pw", "customer", e)
RaceLoginStep(s) == \E u \in Usernames : Login(s, u, "pw", "customer")

NextRace ==
    \E s \in Sessions :
        \/ RaceRegisterStep(s)
        \/ RegisterInsert(s)
        \/ RaceLoginStep(s)
        \/ Logout(s)
SpecRace == Init /\ [][NextRace]_vars

(* ======================= properties of the ledger ======================= *)
tables == <<inventory, history, nextItemId, nextHistId>>

\* the status the data model derives from a quantity
DerivedStatus(quantity) == IF quantity = 0 THEN "Out of Stock" ELSE "In Stock"

\* C1: every inserted item has status "Out of Stock" iff its quantity is 0, and
\* "In Stock" otherwise (under SpecImport every stored row is as it was inserted,
\* by the Add form or by the CSV import)
C1_StatusFollowsQuantity ==
    \A id \in DOMAIN inventory :
        inventory[id].status = DerivedStatus(inventory[id].quantity)

\* C2: a successful UpdateItem or DeleteItem appends exactly one history row,
\* with action UPDATE resp. DELETE and the id of the item, and touches no
\* other history row
C2_OneHistoryRowPerCall ==
    [][(lastInv'.op \in {"update", "delete"} /\ lastInv'.ok)
         => /\ Len(history') = Len(history) + 1
            /\ SubSeq(history', 1, Len(history)) = history
            /\ history'[Len(history')].inventory_id = lastInv'.id
            /\ history'[Len(history')].action =
                   (IF lastInv'.op = "update" THEN "UPDATE" ELSE "DELETE")]_vars

\* an update and a delete have both been recorded, the delete last
C2_Witness ==
    /\ lastInv.op = "delete" /\ lastInv.ok
    /\ Len(history) >= 2
    /\ history[Len(history)].action = "DELETE"
    /\ \E i \in 1..Len(history) : history[i].action = "UPDATE"

\* C3: ClearAll succeeds and leaves inventory and history empty, from any
\* state; a ClearAll that follows a ClearAll succeeds and changes neither table
C3_ClearAllEmptiesAndIsIdempotent ==
    [][lastInv'.op = "clear"
         => /\ lastInv'.ok
            /\ inventory' = << >>
            /\ history' = << >>
            /\ (lastInv.op = "clear" => UNCHANGED tables)]_vars

\* a ClearAll has emptied tables that had been written to
C3_Witness ==
    /\ lastInv.op = "clear"
    /\ nextItemId > 1
    /\ nextHistId > 1
    /\ inventory = << >> /\ history = << >>

\* a numeric cell that is a number >= 0
CellOk(c) == c.kind = "num" /\ c.val >= 0

\* the row breaks the validation contract of the bulk import
RowInvalid(row) ==
    \/ ~CellOk(row.quantity) \/ ~CellOk(row.price) \/ ~CellOk(row.min_stock)
    \/ row.name = NullText \/ row.category = NullText

\* the row has a blank quantity or min_stock cell and is valid otherwise
RowBlankCount(row) ==
    /\ row.quantity = Blank \/ row.min_stock = Blank
    /\ row.quantity = Blank \/ CellOk(row.quantity)
    /\ row.min_stock = Blank \/ CellOk(row.min_stock)
    /\ CellOk(row.price)
    /\ row.name # NullText /\ row.category # NullText

Count(rows, P(_)) == Cardinality({i \in 1..Len(rows) : P(rows[i])})

\* what BulkImport answers for the file in the uploader of session s
BulkImportResult(s) ==
    import_inventory_from_csv(sess[s].df, inventory, history, nextItemId, nextHistId)

\* C4 as claimed: a batch of N rows with exactly one invalid row (for example
\* a negative quantity) is imported with success_count N-1, error_count 1 and
\* one entry in errors
C4_OneInvalidRowIsSkipped ==
    \A s \in Sessions :
        (/\ sess[s].pc = "uploaded"
         /\ sess[s].df.columns = RequiredColumns
         /\ Count(sess[s].df.rows, RowInvalid) = 1)
        => /\ validate_inventory_csv(sess[s].df)[1]
           /\ BulkImportResult(s).success_count = Len(sess[s].df.rows) - 1
           /\ BulkImportResult(s).error_count = 1
           /\ Len(BulkImportResult(s).errors) = 1

\* the rows of the batch that are not the one with the blank cell
Storable(rows) == SelectSeq(rows, LAMBDA r : ~RowBlankCount(r))

\* C4 amended: a batch of N valid rows but one, which has a blank quantity or
\* min_stock cell, passes validation and is imported with success_count N-1,
\* error_count 1 and one entry in errors; the N-1 other rows are stored, in
\* order, each with its ADD history row, and no stored row changes
C4_OneBlankRowIsSkipped ==
    [][\A s \in Sessions :
         (/\ sess[s].pc = "uploaded"
          /\ lastInv'.op = "import" /\ lastInv'.sess = s
          /\ Count(sess[s].df.rows, RowBlankCount) = 1
          /\ Count(sess[s].df.rows, RowInvalid) = 1)
         => LET rows == sess[s].df.rows
                good == Storable(rows)
            IN /\ lastInv'.ok
               /\ lastInv'.success_count = Len(rows) - 1
               /\ lastInv'.error_count = 1
               /\ Len(lastInv'.errors) = 1
               /\ Len(good) = Len(rows) - 1
               /\ DOMAIN inventory' =
                      DOMAIN inventory \cup (nextItemId .. nextItemId + Len(good) - 1)
               /\ \A id \in DOMAIN inventory : inventory'[id] = inventory[id]
               /\ \A j \in 1..Len(good) :
                      /\ inventory'[nextItemId + j - 1].name = good[j].name
                      /\ inventory'[nextItemId + j - 1].quantity = good[j].quantity.val
                      /\ inventory'[nextItemId + j - 1].price = good[j].price.val
                      /\ history'[Len(history) + j].inventory_id = nextItemId + j - 1
                      /\ history'[Len(history) + j].action = "ADD"
               /\ Len(history') = Len(history) + Len(good)
               /\ SubSeq(history', 1, Len(history)) = history]_vars

\* an import of two rows stored one and skipped the other
C4_Witness ==
    /\ lastInv.op = "import" /\ lastInv.ok
    /\ lastInv.success_count = 1
    /\ lastInv.error_count = 1
    /\ Len(lastInv.errors) = 1
    /\ lastInv.id \in DOMAIN inventory

\* the file breaks the validation contract in one of the ways C5 lists
HasViolation(df) ==
    \/ RequiredColumns \ df.columns # {}
    \/ \E i \in 1..Len(df.rows) :
          \/ \E c \in {df.rows[i].quantity, df.rows[i].price, df.rows[i].min_stock} :
                c.kind = "text" \/ (c.kind = "num" /\ c.val < 0)
          \/ df.rows[i].name = NullText
          \/ df.rows[i].category = NullText

C6_UpdateOfAbsentItemFails ==
    [][(lastInv'.op = "update" /\ lastInv'.id \notin DOMAIN inventory)
         => (~lastInv'.ok /\ inventory' = inventory /\ history' = history)]_vars

\* C7: a DeleteItem for an id that is not in the inventory answers "Item not
\* found" and changes neither table
C7_DeleteOfAbsentItemFails ==
    [][\A s \in Sessions :
         (/\ sess[s].pc = "loaded"
          /\ lastInv'.sess = s
          /\ lastInv'.op \in {"select", "delete"}
          /\ sess[s].item.id \notin DOMAIN inventory)
         => /\ lastInv'.op = "delete"
            /\ ~lastInv'.ok
            /\ lastInv'.msg = "Item not found"
            /\ UNCHANGED tables]_vars

\* a delete was refused for an item another session had removed
C7_Witness ==
    /\ lastInv.op = "delete"
    /\ ~lastInv.ok
    /\ lastInv.msg = "Item not found"
    /\ lastInv.id \notin DOMAIN inventory
    /\ \E i \in 1..Len(history) :
          history[i].action = "DELETE" /\ history[i].inventory_id = lastInv.id

(* ====================== properties of the bookings ====================== *)
\* C8: every booking that a CreateBooking stores has status "Pending", and a
\* CreateBooking that reports success has stored its booking so
C8_CreatedBookingIsPending ==
    [][/\ \A id \in DOMAIN bookings' \ DOMAIN bookings :
             bookings'[id].status = "Pending"
       /\ (lastBook'.op = "create" /\ lastBook'.ok /\ lastBook' # lastBook)
             => (/\ lastBook'.id \in DOMAIN bookings' \ DOMAIN bookings
                 /\ bookings'[lastBook'.id].status = "Pending")]_vars

\* the three flows have each stored a booking
C8_Witness ==
    /\ lastBook.op = "create" /\ lastBook.ok
    /\ \E a, b, c \in DOMAIN bookings :
          /\ a[1] = "uuid" /\ bookings[a].vehicle_type = "Car"
          /\ b[1] = "uuid" /\ bookings[b].vehicle_type = "Motorcycle"
          /\ c[1] = "BK" /\ bookings[c].booking_date = Today + 1

\* C9 as claimed: a CreateBooking whose fields are filled never fails: the id
\* it generates is not the booking_id of a stored booking
C9_CreateNeverCollides ==
    (lastBook.op = "create" /\ lastBook.id # <<"", 0>>) => lastBook.ok

(* ======================= properties of the users ======================== *)
\* the user stored under a username
StoredUser(username) == CHOOSE id \in DOMAIN users : users[id].username = username
IsStored(username) == \E id \in DOMAIN users : users[id].username = username

\* C16: a Register with a username that is already stored fails (the checks of
\* register_user answer "Username already exists") and leaves the users table,
\* the stored record included, as it was
C16_DuplicateUsernameIsRejected ==
    [][/\ \A u \in Usernames, e \in Emails :
             IsStored(u) => register_user_checks(users, u, e)
                                = <<FALSE, "Username already exists">>
       /\ (lastAuth'.op = "register" /\ IsStored(lastAuth'.username))
             => (~lastAuth'.ok /\ users' = users)]_vars

\* a registration was refused because its username is taken
C16_Witness ==
    /\ lastAuth.op = "register" /\ ~lastAuth.ok
    /\ lastAuth.msg = "Username already exists"
    /\ IsStored(lastAuth.username)

\* C17 as claimed: a registration with the email left blank and an unused
\* username succeeds, whoever else registered without an email
C17_BlankEmailAlwaysRegisters ==
    [][\A s \in Sessions :
          (reg[s].pc = "insert" /\ reg'[s].pc = "idle" /\ reg[s].email = ""
             /\ ~IsStored(reg[s].username))
          => lastAuth'.ok]_vars

\* C18: Authenticate answers "User not found" iff no user has the username,
\* "Invalid password" iff the user exists and the hash of the password differs
\* from the stored hash, and otherwise the stored id, role and email of the
\* user; a login never changes the users table
C18_AuthenticateOutcomes ==
    [][/\ \A u \in Usernames, p \in Passwords :
             LET a == authenticate_user(users, u, p) IN
             /\ (~a.ok /\ a.msg = "User not found") <=> ~IsStored(u)
             /\ (~a.ok /\ a.msg = "Invalid password")
                   <=> (IsStored(u) /\ users[StoredUser(u)].password # <<"sha256", p>>)
             /\ (IsStored(u) /\ users[StoredUser(u)].password = <<"sha256", p>>)
                   => /\ a.ok
                      /\ a.user.user_id = StoredUser(u)
                      /\ a.user.role = users[StoredUser(u)].role
                      /\ a.user.email = users[StoredUser(u)].email
       /\ lastAuth'.op = "login" => users' = users
       /\ (lastAuth'.op = "login" /\ lastAuth'.username # "" /\ lastAuth'.password # ""
             /\ IsStored(lastAuth'.username)
             /\ users[StoredUser(lastAuth'.username)].password
                   # <<"sha256", lastAuth'.password>>)
             => (~lastAuth'.ok /\ lastAuth'.msg = "Invalid password")]_vars

\* a login with the right username and the wrong password was refused
C18_Witness ==
    /\ lastAuth.op = "login" /\ ~lastAuth.ok
    /\ lastAuth.msg = "Invalid password"
    /\ IsStored(lastAuth.username)

\* the credentials entered in the login form are those of a stored user
ValidCredentials(o) ==
    /\ IsStored(o.username)
    /\ users[StoredUser(o.username)].password = <<"sha256", o.password>>

\* C19: a login with valid credentials whose stored role differs from the
\* role selected on the login page is rejected and leaves the session
\* unauthenticated; a session becomes authenticated only by a login with valid
\* credentials and matching roles
C19_WrongPortalIsRejected ==
    [][/\ (lastAuth'.op = "login" /\ ValidCredentials(lastAuth')
             /\ users[StoredUser(lastAuth'.username)].role # lastAuth'.selected_role)
          => /\ ~lastAuth'.ok
             /\ ~session_state'[lastAuth'.sess].authenticated
             /\ session_state' = session_state
       /\ \A s \in Sessions :
             (~session_state[s].authenticated /\ session_state'[s].authenticated)
             => /\ lastAuth'.op = "login" /\ lastAuth'.sess = s /\ lastAuth'.ok
                /\ ValidCredentials(lastAuth')
                /\ users[StoredUser(lastAuth'.username)].role = lastAuth'.selected_role
                /\ session_state'[s].current_view = lastAuth'.selected_role]_vars

\* valid credentials were entered on the wrong portal
C19_Witness ==
    /\ lastAuth.op = "login" /\ ~lastAuth.ok
    /\ ValidCredentials(lastAuth)
    /\ users[StoredUser(lastAuth.username)].role # lastAuth.selected_role
    /\ ~session_state[lastAuth.sess].authenticated

\* C20 as claimed: every stored inventory item has a quantity >= 0 and a
\* price >= 0 (a price that is SQL NULL is not a number >= 0)
C20_QuantityAndPriceNonNegative ==
    \A id \in DOMAIN inventory :
        /\ inventory[id].quantity # NULL /\ inventory[id].quantity >= 0
        /\ inventory[id].price # NULL /\ inventory[id].price >= 0

(* ================== properties of the booking lifecycle ================= *)
\* the status changes the lifecycle allows
AllowedNext(status) ==
    CASE status = "Pending" -> {"In Progress", "Cancelled"}
      [] status = "In Progress" -> {"Completed", "Cancelled"}
      [] OTHER -> {}

\* C11 as claimed: a booking that is Completed or Cancelled keeps its status,
\* and every change of a status follows Pending -> {In Progress, Cancelled},
\* In Progress -> {Completed, Cancelled}
C11_StatusFollowsLifecycle ==
    [][\A id \in DOMAIN bookings :
          bookings'[id].status # bookings[id].status
             => bookings'[id].status \in AllowedNext(bookings[id].status)]_vars

\* C12: a SetStatus on a stored booking sets its status to the status chosen,
\* whatever the status was, and changes no other field and no other booking
C12_SetStatusOverwrites ==
    [][lastBook'.op = "status"
         => /\ lastBook'.id \in DOMAIN bookings
            /\ lastBook'.new_status \in BookingStatuses
            /\ bookings' = [bookings EXCEPT
                              ![lastBook'.id] = [@ EXCEPT !.status = lastBook'.new_status]]]_vars

\* a booking was put back to Pending while another one is Cancelled
C12_Witness ==
    /\ lastBook.op = "status" /\ lastBook.new_status = "Pending"
    /\ bookings[lastBook.id].status = "Pending"
    /\ \E id \in DOMAIN bookings : bookings[id].status = "Cancelled"

\* C13: the status of a stored booking changes only in a step of a session
\* that is logged in as a user whose stored role is admin, and no step removes
\* a booking
C13_OnlyAdminChangesStatus ==
    [][/\ DOMAIN bookings \subseteq DOMAIN bookings'
       /\ (\E id \in DOMAIN bookings : bookings'[id] # bookings[id])
             => /\ lastBook'.op = "status"
                /\ session_state[lastBook'.sess].authenticated
                /\ session_state[lastBook'.sess].user.user_id \in DOMAIN users
                /\ users[session_state[lastBook'.sess].user.user_id].role = "admin"]_vars

\* the admin changed a status while a customer session was logged in
C13_Witness ==
    /\ lastBook.op = "status"
    /\ bookings[lastBook.id].status = "Completed"
    /\ \E s \in Sessions :
          session_state[s].authenticated /\ session_state[s].current_view = "customer"

(* ======================= properties of the slots ======================== *)
\* the bookings of a date and time slot
SlotBookings(date, time_slot) ==
    {id \in DOMAIN bookings :
        bookings[id].booking_date = date /\ bookings[id].time_slot = time_slot}

\* C15: the availability line shows 3 minus the number of bookings of the
\* date and slot while that is positive, and reports the slot as fully booked
\* once the remaining count is <= 0, i.e. from 3 bookings on
C15_SlotAvailability ==
    lastBook.op = "slots"
       => LET remaining == 3 - Cardinality(SlotBookings(lastBook.date, lastBook.time_slot)) IN
          /\ remaining > 0 => (lastBook.ok /\ lastBook.slots_available = remaining)
          /\ remaining <= 0 => (~lastBook.ok /\ lastBook.slots_available = NULL)

\* the slot was checked after exactly 3 bookings for it, and bookings of
\* another date exist
C15_Witness ==
    /\ lastBook.op = "slots" /\ ~lastBook.ok
    /\ Cardinality(SlotBookings(lastBook.date, lastBook.time_slot)) = 3
    /\ Cardinality(DOMAIN bookings) > 3

(* ==================== properties of the booking lists =================== *)
\* the list holds each booking of the customer once, and no other booking
ListsExactly(rows, customer_name) ==
    /\ {rows[i] : i \in 1..Len(rows)}
          = {id \in DOMAIN bookings : bookings[id].customer_name = customer_name}
    /\ \A i, j \in 1..Len(rows) : i # j => rows[i] # rows[j]

\* the rank the specification gives a status
Rank(status) ==
    CASE status = "In Progress" -> 1
      [] status = "Pending" -> 2
      [] status = "Completed" -> 3
      [] status = "Cancelled" -> 4

\* rows are ordered by rank and, within a rank, by booking_date descending
RankThenDateDescending(rows) ==
    \A i, j \in 1..Len(rows) :
        i < j => \/ Rank(bookings[rows[i]].status) < Rank(bookings[rows[j]].status)
                 \/ /\ Rank(bookings[rows[i]].status) = Rank(bookings[rows[j]].status)
                    /\ bookings[rows[i]].booking_date >= bookings[rows[j]].booking_date

\* rows are the active bookings, then the finished ones, each group by
\* booking_date descending
ActiveFirstThenDateDescending(rows) ==
    \A i, j \in 1..Len(rows) :
        i < j =>
          LET fi == bookings[rows[i]].status \in {"Completed", "Cancelled"}
              fj == bookings[rows[j]].status \in {"Completed", "Cancelled"}
          IN \/ ~fi /\ fj
             \/ /\ fi = fj
                /\ bookings[rows[i]].booking_date >= bookings[rows[j]].booking_date

\* C14 as claimed: every list of a customer's bookings holds exactly the
\* bookings of that customer, ordered by status rank and then by booking_date
\* descending
C14_ListByCustomerOrdered ==
    lastBook.op = "list"
       => /\ ListsExactly(lastBook.rows, lastBook.customer_name)
          /\ RankThenDateDescending(lastBook.rows)

\* C14, amended: both pages list exactly the bookings of the customer; the
\* booking history page orders them by status rank and then by booking_date
\* descending; the service status page lists the active bookings before the
\* Completed and Cancelled ones, each group by booking_date descending
C14_ListsOfEachPage ==
    lastBook.op = "list"
       => /\ ListsExactly(lastBook.rows, lastBook.customer_name)
          /\ lastBook.flow = "booking_history" => RankThenDateDescending(lastBook.rows)
          /\ lastBook.flow = "service_status"
                => ActiveFirstThenDateDescending(lastBook.rows)

\* the booking history page listed two bookings of a customer in the reverse
\* of the order of their creation, while the other customer has a booking too
C14_Witness ==
    /\ lastBook.op = "list" /\ lastBook.flow = "booking_history"
    /\ Len(lastBook.rows) = 2
    /\ bookings[lastBook.rows[1]].status = "In Progress"
    /\ bookings[lastBook.rows[2]].status \in {"Completed", "Cancelled"}
    /\ lastBook.rows[1][2] > lastBook.rows[2][2]
    /\ \E id \in DOMAIN bookings : bookings[id].customer_name # lastBook.customer_name

(* ---------------- history, deletion and update records ------------------ *)
\* C21: the inventory history is append-only: a step that is not ClearAll
\* leaves every history row in place with the same field values, and only
\* adds rows after them
C21_HistoryIsAppendOnly ==
    [][lastInv'.op # "clear"
         => /\ Len(history') >= Len(history)
            /\ SubSeq(history', 1, Len(history)) = history]_vars

\* an item was added, updated and deleted, and the three rows are all there
C21_Witness ==
    /\ lastInv.op = "delete" /\ lastInv.ok
    /\ Len(history) = 3
    /\ history[1].action = "ADD"
    /\ history[2].action = "UPDATE"
    /\ history[3].action = "DELETE"
    /\ history[1].inventory_id = history[3].inventory_id

\* C24: every UPDATE history row records as old_quantity/old_price the values
\* the item had in the store immediately before the update, and as
\* new_quantity/new_price the values the update stored, also when two sessions
\* that loaded the same item update it one after the other
C24_UpdateRowRecordsStoredValues ==
    [][(lastInv'.op = "update" /\ lastInv'.ok /\ lastInv'.id \in DOMAIN inventory)
         => LET h == history'[Len(history')]
                id == lastInv'.id
            IN /\ h.action = "UPDATE"
               /\ h.inventory_id = id
               /\ h.old_quantity = inventory[id].quantity
               /\ h.old_price = inventory[id].price
               /\ h.new_quantity = inventory'[id].quantity
               /\ h.new_price = inventory'[id].price]_vars

\* C25: DeleteItem is atomic: of two concurrent deletions of one item, one
\* succeeds and the other fails with "Item not found"; no item id ever has
\* more than one DELETE history row
C25_OneDeleteRowPerItem ==
    /\ \A i, j \in 1..Len(history) :
          (history[i].action = "DELETE" /\ history[j].action = "DELETE"
           /\ history[i].inventory_id = history[j].inventory_id) => i = j
    /\ (lastInv.op = "delete" /\ lastInv.ok)
          => Cardinality({i \in 1..Len(history) :
                             history[i].action = "DELETE"
                             /\ history[i].inventory_id = lastInv.id}) = 1

\* C26: a successful DeleteItem appends a DELETE history row with the item's
\* stored quantity and price as old values and 0 as new values, and removes the
\* item in the same commit: the row is never there while the item still is
C26_DeleteRecordsStoredValues ==
    [][(lastInv'.op = "delete" /\ lastInv'.ok)
         => LET h == history'[Len(history')]
                id == lastInv'.id
            IN /\ Len(history') = Len(history) + 1
               /\ h.action = "DELETE" /\ h.inventory_id = id
               /\ h.new_quantity = 0 /\ h.new_price = 0
               /\ id \in DOMAIN inventory
               /\ h.old_quantity = inventory[id].quantity
               /\ h.old_price = inventory[id].price
               /\ id \notin DOMAIN inventory']_vars

\* the ADD history rows that reference item id
AddRowsOf(hist, id) ==
    {i \in 1..Len(hist) : hist[i].action = "ADD" /\ hist[i].inventory_id = id}

\* C27: in every committed state every item of the inventory has exactly one
\* ADD history row referencing its id, with null old values; when the item is
\* inserted, by the form or by a CSV import in which another row fails, the
\* row's new_quantity and new_price are the values the item was inserted with
C27_EveryItemHasItsAddRow ==
    [][/\ \A id \in DOMAIN inventory' :
             /\ Cardinality(AddRowsOf(history', id)) = 1
             /\ \A i \in AddRowsOf(history', id) :
                   history'[i].old_quantity = NULL /\ history'[i].old_price = NULL
       /\ \A id \in DOMAIN inventory' \ DOMAIN inventory :
             \A i \in AddRowsOf(history', id) :
                /\ history'[i].new_quantity = inventory'[id].quantity
                /\ history'[i].new_price = inventory'[id].price]_vars

\* an import stored one row of its batch and failed on the other, next to an
\* item that the form had added
C27_Witness ==
    /\ lastInv.op = "import"
    /\ lastInv.success_count = 1 /\ lastInv.error_count = 1
    /\ Cardinality(DOMAIN inventory) = 2
    /\ Len(history) = 2

(* ---------------------------- slot capacity ----------------------------- *)
\* C28: slot capacity is enforced: no date and time slot ever has more than 3
\* bookings, because a booking submitted for a slot that already has 3 is not
\* stored
C28_SlotCapacityIsEnforced ==
    \A d \in PageDates, ts \in PageSlots :
        Cardinality(SlotBookings(d, ts)) <= SlotCapacity

(* ----------------- AI helpers, startup and the dashboards --------------- *)
\* C22: a call of the AI gateway that fails, by raising or by answering
\* without text, is replaced at its call site by a fixed apology string that
\* does not depend on the failure
C22_FailureGivesFixedApology ==
    (ai.helper # "none" /\ ai.outcome.kind # "text")
       => \A i \in 1..Len(ai.returned) : ai.returned[i] # ai.outcome.detail

\* C23: without the API key the run shows an error and stops: it reaches
\* neither init_db nor the login page nor a dashboard, and no store is written
C23_NoKeyAbortsStartup ==
    api_key = NoKey
       => /\ \A s \in Sessions :
                /\ run[s] # << >> => run[s][1] = "st.error"
                /\ \A i \in 1..Len(run[s]) :
                      run[s][i] \notin {"init_db", "show_login_page"} \cup Dashboards
                /\ session_state[s] = LoggedOut
          /\ users = << >> /\ bookings = << >> /\ inventory = << >>

\* both sessions opened the application without the key and were stopped
C23_Witness ==
    /\ api_key = NoKey
    /\ \A s \in Sessions : run[s] # << >> /\ run[s][Len(run[s])] = "st.stop"

\* session s is logged in as a stored user and its view is that user's role
ViewIsStoredRole(s) ==
    /\ session_state[s].current_view \in Roles
    /\ session_state[s].user.user_id \in DOMAIN users
    /\ users[session_state[s].user.user_id].role = session_state[s].current_view

\* C30: a dashboard is rendered only for an authenticated session: whenever a
\* session is authenticated its current_view is the stored role of the user
\* who logged in, the admin dashboard is shown only when that role is admin,
\* and a Logout leaves the session unauthenticated on the login page
C30_DashboardOnlyWhenAuthenticated ==
    [][/\ \A s \in Sessions :
             /\ session_state'[s].authenticated => ViewIsStoredRole(s)'
             /\ PageShown(s)' \in Dashboards => session_state'[s].authenticated
             /\ PageShown(s)' = "show_admin_dashboard"
                   => session_state'[s].current_view = "admin"
             /\ PageShown(s)' = "show_customer_dashboard"
                   => session_state'[s].current_view = "customer"
       /\ \A s \in Sessions :
             (lastAuth'.op = "logout" /\ lastAuth'.sess = s /\ lastAuth' # lastAuth)
                => /\ session_state'[s] = LoggedOut
                   /\ PageShown(s)' = "show_login_page"]_vars

\* the admin is on the admin dashboard and the customer has just logged out
C30_Witness ==
    /\ PageShown("s1") = "show_admin_dashboard"
    /\ session_state["s1"].authenticated
    /\ lastAuth.op = "logout" /\ lastAuth.sess = "s2"
    /\ PageShown("s2") = "show_login_page"

\* C29: usernames are unique in every state of the users table, also when two
\* register_user calls for the same unused username both pass the existence
\* check before either inserts: the second INSERT fails and stores nothing
C29_UsernamesStayUnique ==
    [][/\ \A i, j \in DOMAIN users' : users'[i].username = users'[j].username => i = j
       /\ \A s \in Sessions :
             (reg[s].pc = "insert" /\ reg'[s].pc = "idle"
              /\ UsersNamed(users, reg[s].username) # {})
                => (~lastAuth'.ok /\ lastAuth'.op = "register" /\ users' = users)]_vars

\* a registration passed its checks, another session then inserted the same
\* username, and the INSERT of the first failed on the username index
C29_Witness ==
    /\ lastAuth.op = "register" /\ ~lastAuth.ok
    /\ lastAuth.msg = "UNIQUE constraint failed: users.username"
    /\ UsersNamed(users, lastAuth.username) # {}
====
